---- MODULE Spec2Model ----
(***************************************************************************)
(* Model of the cookie-session / authentication flow of                   *)
(* app/utils/session.server.ts: the session handle returned by getSession, *)
(* the module-level user resolver, the magic-link sign-in and the route    *)
(* guards, running against the external session-record store.             *)
(***************************************************************************)
EXTENDS Naturals, Integers, Sequences, FiniteSets, TLC

\* ---------------------------------------------------------------- bounds
MaxRecords == 2     \* session records ever created in the store
MaxClients == 2     \* client identifiers ever generated
MaxHeaders == 3     \* entries of a header collection passed from call to call
MaxPosts == 26      \* posts the blog listing is given
MaxTyped == 4       \* pieces of text typed into the blog search box

\* the request being handled; requests follow one another in this slot
Reqs == {1}

\* the requests in flight when two are handled at the same time
Concurrent == {1, 2}

\* ------------------------------------------------------------- constants
sessionIdKey == "__session_id__"
OtherKey == "clientId"          \* a non-reserved key, set through handle.session
OtherValues == {"x"}
Undefined == "undefined"

\* ------------------------------------------------------------ user store
Users == {"kody", "hannah"}
RoleOf(u) == IF u = "kody" THEN "ADMIN" ELSE "MEMBER"
EmailOf(u) == IF u = "kody" THEN "kody@kcd.dev" ELSE "hannah@kcd.dev"
Emails == {EmailOf(u) : u \in Users} \cup {"nobody@kcd.dev"}
NoUser == ""

\* ids handed out by the store, in creation order
IdOf(n) == "s" \o ToString(n)

\* ------------------------------------------ remix Session (ordered Map)
RECURSIVE SessionGet(_, _)
SessionGet(s, k) ==
  IF s = <<>> THEN Undefined
  ELSE IF Head(s)[1] = k THEN Head(s)[2] ELSE SessionGet(Tail(s), k)

SessionKeys(s) == {s[i][1] : i \in DOMAIN s}

\* Map.set: an existing key keeps its position, a new key is appended
SessionSet(s, k, v) ==
  IF k \in SessionKeys(s)
  THEN [i \in DOMAIN s |-> IF s[i][1] = k THEN <<k, v>> ELSE s[i]]
  ELSE Append(s, <<k, v>>)

\* Map.delete
SessionUnset(s, k) == SelectSeq(s, LAMBDA e : e[1] # k)

\* ------------------------------------------------------- cookie codec
\* JSON text of session.data: the entries in insertion order, flattened
RECURSIVE Encode(_)
Encode(s) == IF s = <<>> THEN <<>> ELSE <<Head(s)[1], Head(s)[2]>> \o Encode(Tail(s))

RECURSIVE Decode(_)
Decode(p) == IF Len(p) < 2 THEN <<>> ELSE <<(<<p[1], p[2]>>)>> \o Decode(SubSeq(p, 3, Len(p)))

\* the cookie each storage reads and writes
ClientCookieName == "KCD_client_id"

\* variant: the auth session stored under the client cookie's name
CookieNameShared == "KCD_client_id"

CookieName == "KCD_root_session"

NoCookie == [name |-> "", present |-> FALSE, payload |-> <<>>, signed |-> FALSE]

\* sessionStorage.commitSession: serialize and sign
commitSession(s) ==
  [name |-> CookieName, present |-> TRUE, payload |-> Encode(s), signed |-> TRUE]

\* variant: the signature is not verified
parseCookieUnverified(c) ==
  IF c.present /\ c.name = CookieName THEN Decode(c.payload) ELSE <<>>

\* sessionStorage.getSession: a missing or badly signed cookie is an empty session
parseCookie(c) ==
  IF c.present /\ c.name = CookieName /\ c.signed THEN Decode(c.payload) ELSE <<>>

\* ------------------------------------------------------------- headers
SetCookie == "Set-Cookie"
NewHeaders == [shape |-> "Headers", entries |-> <<>>]
HeaderEntry(n, c) == [name |-> n, cookie |-> c]
SetCookies(h) == SelectSeq(h.entries, LAMBDA e : e.name = SetCookie)
HasSetCookie(h) == SetCookies(h) # <<>>

\* -------------------------------------------------------------- results
NoRes == [kind |-> "none", user |-> NoUser, location |-> "", headers |-> NewHeaders,
          value |-> NoCookie, id |-> ""]
Null == [NoRes EXCEPT !.kind = "null"]
UserRes(u) == [NoRes EXCEPT !.kind = "user", !.user = u]
redirect(url, h) == [NoRes EXCEPT !.kind = "redirect", !.location = url, !.headers = h]
\* the continuation handed to a guard: a response built from the user
callback(u) == [NoRes EXCEPT !.kind = "response", !.user = u]
CookieRes(c) == [NoRes EXCEPT !.kind = "cookie", !.value = c]
HeadersRes(h) == [NoRes EXCEPT !.kind = "headers", !.headers = h]
HandleRes == [NoRes EXCEPT !.kind = "handle"]
IdRes(i) == [NoRes EXCEPT !.kind = "id", !.id = i]

\* ---------------------------------------------------------------- state
VARIABLES
  records,         \* session records in the store: id -> user id
  nextId,          \* number of the next record the store creates
  pendingDeletes,  \* ids whose deletion was requested and has not completed
  cookie,          \* per request: the incoming Cookie header
  handles,         \* per request: the handle getSession returned, if any
  last,            \* the operation that completed last, and what it returned
  jar,             \* the browser's cookies, by cookie name
  clientCookie,    \* per request: the incoming client-identity cookie
  clients,         \* per request: the handle getClientSession returned, if any
  nextUuid,        \* number of the next identifier uuid.v4() gives
  page,            \* blog listing: the matching posts and how many are shown
  search,          \* blog listing: the query and the posts passing its team filter
  teamUi           \* TeamProvider: the user, the team state and its effect

clientVars == <<jar, clientCookie, clients, nextUuid>>
uiVars == <<page, search, teamUi>>
vars == <<records, nextId, pendingDeletes, cookie, handles, last, clientVars, uiVars>>

\* mutations records what was called on the handle since it was opened:
\* "none", "some" (a mutating call), "set" (session.set was among them)
NoHandle == [open |-> FALSE, session |-> <<>>, initialValue |-> NoCookie, mutations |-> "none"]
touched(h) == h.mutations # "none"
Mutated(h) == IF h.mutations = "set" THEN "set" ELSE "some"

NoCall == <<>>
Call(fn, arg) == [fn |-> fn, arg |-> arg]

Idle == [op |-> "idle", req |-> 0, threw |-> FALSE,
         cause |-> "", result |-> NoRes, calls |-> NoCall, invoked |-> NoUser,
         logged |-> FALSE, given |-> NewHeaders]

Done(op, r, res, calls) ==
  [Idle EXCEPT !.op = op, !.req = r, !.result = res, !.calls = calls]

\* ------------------------------------------------- store collaborators
Rejected == "rejected"

\* getUserFromSessionId: the user owning the record, or a rejection when the
\* id is not found or the store call fails (ok = FALSE)
getUserFromSessionId(token, ok) ==
  IF ok /\ token \in DOMAIN records THEN records[token] ELSE Rejected

\* getUserByEmail: the user, null when there is none, or a rejection
getUserByEmail(email, ok) ==
  IF ~ok THEN Rejected
  ELSE IF \E u \in Users : EmailOf(u) = email
       THEN CHOOSE u \in Users : EmailOf(u) = email
       ELSE NoUser

\* createSession: the store adds a record for the user under a fresh id
createSession(userId) == [id |-> IdOf(nextId), userId |-> userId]
StoreWith(rec) == [i \in DOMAIN records \cup {rec.id} |->
                     IF i = rec.id THEN rec.userId ELSE records[i]]
StoreWithout(id) == [i \in DOMAIN records \ {id} |-> records[i]]

\* ------------------------------------------------------ getSession handle
\* variant: the form at open taken from the incoming cookie itself
getSessionRawInitial(c) ==
  [open |-> TRUE, session |-> parseCookie(c), initialValue |-> c, mutations |-> "none"]

\* getSession(request): decode the cookie, remember its serialized form
getSession(c) ==
  [open |-> TRUE, session |-> parseCookie(c),
   initialValue |-> commitSession(parseCookie(c)), mutations |-> "none"]

getSessionId(h) == SessionGet(h.session, sessionIdKey)

unsetSessionId(h) ==
  [h EXCEPT !.session = SessionUnset(h.session, sessionIdKey), !.mutations = Mutated(h)]

\* variant: the record is created and session.set is forgotten
singInNoSet(h, id) == [h EXCEPT !.mutations = Mutated(h)]

\* variant: the new id stored under another key
singInOtherKey(h, id) ==
  [h EXCEPT !.session = SessionSet(h.session, OtherKey, id), !.mutations = Mutated(h)]

\* singIn, after createSession resolved with a record: session.set(sessionIdKey, id)
singIn(h, id) ==
  [h EXCEPT !.session = SessionSet(h.session, sessionIdKey, id), !.mutations = Mutated(h)]

\* variant: the serialized session, whatever it was at open
commitAlways(h) == CookieRes(commitSession(h.session))

\* commit: the serialized session, or null when it equals the form at open
commit(h) ==
  IF commitSession(h.session) = h.initialValue THEN Null
  ELSE CookieRes(commitSession(h.session))

\* the three header-collection shapes getHeaders accepts
AppendSetCookie(hd, value) ==
  IF hd.shape = "Object" /\ \E i \in DOMAIN hd.entries : hd.entries[i].name = SetCookie
  THEN [hd EXCEPT !.entries = [i \in DOMAIN hd.entries |->
          IF hd.entries[i].name = SetCookie THEN HeaderEntry(SetCookie, value)
          ELSE hd.entries[i]]]
  ELSE [hd EXCEPT !.entries = Append(hd.entries, HeaderEntry(SetCookie, value))]

getHeaders(h, hd) ==
  IF commit(h).kind = "null" THEN hd ELSE AppendSetCookie(hd, commit(h).value)

\* variant: the deletion is requested and the local key is kept
signOutKeepsId(h) == h

\* signOut on a handle: the handle afterwards
signOut(h) == IF getSessionId(h) # Undefined THEN unsetSessionId(h) ELSE h
\* signOut on a handle: the record deletions it requests
signOutDeletes(h) == IF getSessionId(h) # Undefined THEN {getSessionId(h)} ELSE {}

\* ------------------------------------------------ getClientSession handle
clientIdKey == "clientId"

\* uuid.v4(): the n-th identifier generated; identifiers do not repeat
uuid(n) == "u" \o ToString(n)

\* clientStorage.commitSession: serialize and sign, under the client cookie's name
clientStorage_commitSession(s) ==
  [name |-> ClientCookieName, present |-> TRUE, payload |-> Encode(s), signed |-> TRUE]

\* clientStorage.getSession: a missing or badly signed cookie is an empty session
clientStorage_getSession(c) ==
  IF c.present /\ c.name = ClientCookieName /\ c.signed THEN Decode(c.payload) ELSE <<>>

\* typeof clientId === 'string'
isString(v) == v # Undefined

\* variant: an identifier is generated on every call
getClientIdAlwaysNew(h, n) ==
  [h EXCEPT !.session = SessionSet(h.session, clientIdKey, uuid(n)), !.mutations = "set"]

\* getClientId() on a handle: the handle afterwards; n numbers the next uuid
getClientId(h, n) ==
  IF isString(SessionGet(h.session, clientIdKey)) THEN h
  ELSE [h EXCEPT !.session = SessionSet(h.session, clientIdKey, uuid(n)),
                 !.mutations = "set"]

\* the identifier the handle's session holds
clientIdOf(h) == SessionGet(h.session, clientIdKey)

\* whether getClientId, turning handle h into g, used up uuid n
generated(h, g, n) == clientIdOf(g) = uuid(n) /\ clientIdOf(h) # uuid(n)

\* variant: the form at open is captured after the client id was set
getClientSessionLateInitial(c, n) ==
  [getClientId([open |-> TRUE, session |-> clientStorage_getSession(c),
                initialValue |-> NoCookie, mutations |-> "none"], n)
     EXCEPT !.initialValue =
       clientStorage_commitSession(
         getClientId([open |-> TRUE, session |-> clientStorage_getSession(c),
                      initialValue |-> NoCookie, mutations |-> "none"], n).session)]

\* variant: the handle is returned without the getClientId() call of line 37
getClientSessionLazy(c, n) ==
  [open |-> TRUE, session |-> clientStorage_getSession(c),
   initialValue |-> clientStorage_commitSession(clientStorage_getSession(c)),
   mutations |-> "none"]

\* getClientSession(request): decode, remember the serialized form, then make
\* sure the client id is set
getClientSession(c, n) ==
  getClientId([open |-> TRUE, session |-> clientStorage_getSession(c),
               initialValue |-> clientStorage_commitSession(clientStorage_getSession(c)),
               mutations |-> "none"], n)

\* the client handle's commit
clientCommit(h) ==
  IF clientStorage_commitSession(h.session) = h.initialValue THEN Null
  ELSE CookieRes(clientStorage_commitSession(h.session))

\* variant: the Set-Cookie entry is written whether or not commit gave a value
clientGetHeadersAlways(h, hd) ==
  AppendSetCookie(hd, clientStorage_commitSession(h.session))

\* the client handle's getHeaders
clientGetHeaders(h, hd) ==
  IF clientCommit(h).kind = "null" THEN hd
  ELSE AppendSetCookie(hd, clientCommit(h).value)

\* ---------------------------------------------------------------- inputs
Allocated == {IdOf(n) : n \in 1..(nextId - 1)}

\* what the application itself stores in a session: nothing, or a session id
AuthDatas == {<<>>} \cup {<<(<<sessionIdKey, i>>)>> : i \in Allocated}

\* sessions in which a caller also used handle.session.set on another key
SessionDatas ==
  LET sid == {<<sessionIdKey, i>> : i \in Allocated}
      oth == {<<OtherKey, v>> : v \in OtherValues}
  IN  AuthDatas \cup {<<e>> : e \in oth}
      \cup {<<a, b>> : a \in sid, b \in oth} \cup {<<b, a>> : a \in sid, b \in oth}

ForgedCookie ==
  [name |-> CookieName, present |-> TRUE, payload |-> <<sessionIdKey, IdOf(1)>>,
   signed |-> FALSE]

CookieInputs == {NoCookie, ForgedCookie} \cup {commitSession(d) : d \in AuthDatas}

SessionCookieInputs == {NoCookie, ForgedCookie} \cup {commitSession(d) : d \in SessionDatas}

OtherSetCookie ==
  HeaderEntry(SetCookie,
              [name |-> "other", present |-> TRUE, payload |-> <<"other">>, signed |-> TRUE])

HeaderInputs ==
  {[shape |-> sh, entries |-> <<>>] : sh \in {"Headers", "Array", "Object"}}
  \cup {[shape |-> "Object", entries |-> <<OtherSetCookie>>]}

\* collections a caller has already put a header of its own into
CallerHeaders ==
  HeaderInputs
  \cup {[shape |-> sh, entries |-> <<HeaderEntry("Cache-Control", NoCookie)>>] :
          sh \in {"Headers", "Array", "Object"}}

\* client identifiers generated so far
Issued == {uuid(n) : n \in 1..(nextUuid - 1)}

ForgedClientCookie ==
  [name |-> ClientCookieName, present |-> TRUE, payload |-> <<clientIdKey, uuid(1)>>,
   signed |-> FALSE]

\* the client cookies a request can carry: none, a forged one, or one that
\* getClientSession committed earlier
ClientCookieInputs ==
  {NoCookie, ForgedClientCookie}
  \cup {clientStorage_commitSession(<<(<<clientIdKey, u>>)>>) : u \in Issued}

\* ---------------------------------------------------- blog listing: paging
PAGE_SIZE == 12
initialIndexToShow == PAGE_SIZE

\* data.recommended is undefined
NoSlug == 0

\* posts are told apart by their slug; n posts in the order they are listed
Posts(n) == [i \in 1..n |-> i]

\* the listing before the route has rendered
NoPage == [matchingPosts |-> <<>>, recommended |-> NoSlug, isSearching |-> FALSE,
           indexToShow |-> initialIndexToShow]

\* Array.prototype.slice(0, k)
slice(s, k) == SubSeq(s, 1, IF k < Len(s) THEN k ELSE Len(s))

\* the posts displayed
posts(p) ==
  IF p.isSearching THEN slice(p.matchingPosts, p.indexToShow)
  ELSE SelectSeq(slice(p.matchingPosts, p.indexToShow), LAMBDA x : x # p.recommended)

\* whether the 'Load more' button is offered
hasMorePosts(p) ==
  IF p.isSearching THEN p.indexToShow < Len(p.matchingPosts)
  ELSE p.indexToShow < Len(p.matchingPosts) - 1

\* ------------------------------------------- blog listing: the team filter
\* the query is a string, here the sequence of its characters
Str_leader == <<"l", "e", "a", "d", "e", "r", ":">>
Str_red == <<"r", "e", "d">>
Str_Blue == <<"B", "l", "u", "e">>
Str_pink == <<"p", "i", "n", "k">>

\* the team names of the site
RED == <<"R", "E", "D">>
BLUE == <<"B", "L", "U", "E">>
YELLOW == <<"Y", "E", "L", "L", "O", "W">>
teams == {RED, BLUE, YELLOW}

\* a post nobody has read has no leading team
NoTeam == <<>>

LowerCase == <<"a", "b", "d", "e", "i", "k", "l", "n", "p", "r", "u", "x">>
UpperCase == <<"A", "B", "D", "E", "I", "K", "L", "N", "P", "R", "U", "X">>

\* \w of the regular expression, over the characters the queries are made of
WordChars == {LowerCase[i] : i \in DOMAIN LowerCase} \cup {UpperCase[i] : i \in DOMAIN UpperCase}
Whitespace == {" "}

\* String.prototype.toUpperCase, character by character
UpperChar(c) ==
  IF \E i \in DOMAIN LowerCase : LowerCase[i] = c
  THEN UpperCase[CHOOSE i \in DOMAIN LowerCase : LowerCase[i] = c]
  ELSE c
toUpperCase(w) == [i \in DOMAIN w |-> UpperChar(w[i])]

\* the literal lit stands in q at position i
HasAt(q, i, lit) ==
  /\ i + Len(lit) - 1 <= Len(q)
  /\ SubSeq(q, i, i + Len(lit) - 1) = lit

\* \w+ is greedy: the position after the last word character from j on
RECURSIVE WordEnd(_, _)
WordEnd(q, j) == IF j <= Len(q) /\ q[j] \in WordChars THEN WordEnd(q, j + 1) ELSE j

\* specialQueryRegex tried at position i: an optional "!", the literal
\* "leader:", one or more word characters, an optional whitespace character
MatchAt(q, i) ==
  LET neg == HasAt(q, i, <<"!">> \o Str_leader)
      from == IF neg THEN i + 8 ELSE i + 7
      to == WordEnd(q, from)
  IN  [ok |-> (neg \/ HasAt(q, i, Str_leader)) /\ to > from,
       not |-> neg,
       team |-> IF to > from THEN SubSeq(q, from, to - 1) ELSE <<>>,
       lastIndex |-> IF to <= Len(q) /\ q[to] \in Whitespace THEN to + 1 ELSE to]

\* the exec loop: the matches of the global expression from position i on,
\* each search starting where the last match ended
RECURSIVE Matches(_, _)
Matches(q, i) ==
  IF i > Len(q) THEN <<>>
  ELSE LET m == MatchAt(q, i)
       IN  IF m.ok THEN <<m>> \o Matches(q, m.lastIndex) ELSE Matches(q, i + 1)

isTeam(team) == team \in teams

\* the teams pushed to leaders and to nonLeaders
leaders(q) ==
  LET ms == Matches(q, 1)
  IN  {toUpperCase(ms[i].team) : i \in {j \in DOMAIN ms : isTeam(toUpperCase(ms[j].team)) /\ ~ms[j].not}}
nonLeaders(q) ==
  LET ms == Matches(q, 1)
  IN  {toUpperCase(ms[i].team) : i \in {j \in DOMAIN ms : isTeam(toUpperCase(ms[j].team)) /\ ms[j].not}}

\* the posts of the loader and the team that leads each in the rankings
allPosts == 1..5
getLeadingTeamForSlug(slug) == <<RED, BLUE, YELLOW, NoTeam, RED>>[slug]

\* variant: a post without a leading team fails the !leader: tokens
teamPostsNeedLeader(q) ==
  IF leaders(q) # {} \/ nonLeaders(q) # {}
  THEN {post \in allPosts :
          LET leader == getLeadingTeamForSlug(post)
          IN  \/ leaders(q) # {} /\ leader # NoTeam /\ leader \in leaders(q)
              \/ nonLeaders(q) # {} /\ leader # NoTeam /\ leader \notin nonLeaders(q)}
  ELSE allPosts

\* the posts that pass the team filter
teamPosts(q) ==
  IF leaders(q) # {} \/ nonLeaders(q) # {}
  THEN {post \in allPosts :
          LET leader == getLeadingTeamForSlug(post)
          IN  \/ leaders(q) # {} /\ leader # NoTeam /\ leader \in leaders(q)
              \/ nonLeaders(q) # {} /\ (leader = NoTeam \/ leader \notin nonLeaders(q))}
  ELSE allPosts

\* what can be typed into the search box in one go
Typed == {Str_leader \o Str_red, <<"!">> \o Str_leader \o Str_Blue,
          Str_leader \o Str_pink, <<"!">> \o Str_leader \o Str_red,
          <<" ">>, <<"x">>, <<"!">>}

\* the search box before anything is typed
NoSearch == [query |-> <<>>, typed |-> 0, teamPosts |-> allPosts]

\* -------------------------------------------------------------- TeamProvider
UNKNOWN == <<"U", "N", "K", "N", "O", "W", "N">>

\* useOptionalUser() gives no user
NoUi == [name |-> NoUser, team |-> NoTeam]

\* the users the provider is given: each has a team
UiUsers == [name : Users, team : teams] \cup {NoUi}

\* no effect is waiting to run; an effect waiting holds the user of its render
NoEffect == [pending |-> FALSE, user |-> NoUi]
Effect(u) == [pending |-> TRUE, user |-> u]

\* the provider on mount: no user, the initial state, the effect of the
\* first render waiting; op is the last step and was the state before it
NoTeamUi == [user |-> NoUi, team |-> UNKNOWN, effect |-> Effect(NoUi), op |-> "mount",
             was |-> UNKNOWN]

\* the team the context exposes: user?.team ?? team
ExposedTeam(t) == IF t.user # NoUi THEN t.user.team ELSE t.team

\* ------------------------------------------------------------------ Init
Init ==
  /\ records = << >>
  /\ nextId = 1
  /\ pendingDeletes = {}
  /\ cookie = [r \in Concurrent |-> NoCookie]
  /\ handles = [r \in Concurrent |-> NoHandle]
  /\ last = Idle
  /\ jar = [n \in {CookieName, ClientCookieName} |-> NoCookie]
  /\ clientCookie = [r \in Concurrent |-> NoCookie]
  /\ clients = [r \in Concurrent |-> NoHandle]
  /\ nextUuid = 1
  /\ page = NoPage
  /\ search = NoSearch
  /\ teamUi = NoTeamUi

\* --------------------------------------------------------------- actions
\* a new request arrives in slot r carrying cookie header c
NewRequest(r, c) ==
  /\ cookie[r] # c \/ handles[r].open
  /\ cookie' = [cookie EXCEPT ![r] = c]
  /\ handles' = [handles EXCEPT ![r] = NoHandle]
  /\ last' = Done("request", r, NoRes, NoCall)
  /\ UNCHANGED <<records, nextId, pendingDeletes, clientVars, uiVars>>

\* const handle = await getSession(request)
GetSession(r) ==
  /\ handles' = [handles EXCEPT ![r] = getSession(cookie[r])]
  /\ last' = Done("getSession", r, HandleRes, NoCall)
  /\ UNCHANGED <<records, nextId, pendingDeletes, cookie, clientVars, uiVars>>

\* variant: requests that came with the same cookie share one session object
SessionSetKeyShared(r, v) ==
  /\ handles[r].open
  /\ handles' = [q \in DOMAIN handles |->
                   IF q = r \/ (handles[q].open /\ cookie[q] = cookie[r])
                   THEN [handles[q] EXCEPT !.session = SessionSet(@, OtherKey, v),
                                           !.mutations = "set"]
                   ELSE handles[q]]
  /\ last' = Done("set", r, NoRes, NoCall)
  /\ UNCHANGED <<records, nextId, pendingDeletes, cookie, clientVars, uiVars>>

\* handle.session.set(key, value) on a non-reserved key
SessionSetKey(r, v) ==
  /\ handles[r].open
  /\ handles' = [handles EXCEPT ![r].session = SessionSet(@, OtherKey, v),
                                ![r].mutations = "set"]
  /\ last' = Done("set", r, NoRes, NoCall)
  /\ UNCHANGED <<records, nextId, pendingDeletes, cookie, clientVars, uiVars>>

\* handle.session.unset(key) on a non-reserved key
SessionUnsetKey(r) ==
  /\ handles[r].open
  /\ handles' = [handles EXCEPT ![r].session = SessionUnset(@, OtherKey),
                                ![r].mutations = Mutated(handles[r])]
  /\ last' = Done("unset", r, NoRes, NoCall)
  /\ UNCHANGED <<records, nextId, pendingDeletes, cookie, clientVars, uiVars>>

\* handle.unsetSessionId()
UnsetSessionId(r) ==
  /\ handles[r].open
  /\ handles' = [handles EXCEPT ![r] = unsetSessionId(@)]
  /\ last' = Done("unsetSessionId", r, NoRes, NoCall)
  /\ UNCHANGED <<records, nextId, pendingDeletes, cookie, clientVars, uiVars>>

\* variant: a failed lookup leaves the session id in the session
HandleGetUserKeepsId(r, ok) ==
  /\ handles[r].open
  /\ LET token == getSessionId(handles[r])
         found == getUserFromSessionId(token, ok)
     IN  IF token = Undefined
         THEN last' = Done("handle.getUser", r, Null, NoCall)
         ELSE IF found = Rejected
         THEN last' = [Done("handle.getUser", r, Null,
                            <<Call("getUserFromSessionId", token)>>)
                         EXCEPT !.logged = TRUE]
         ELSE last' = Done("handle.getUser", r, UserRes(found),
                           <<Call("getUserFromSessionId", token)>>)
  /\ UNCHANGED <<records, nextId, pendingDeletes, cookie, handles, clientVars, uiVars>>

\* handle.getUser()
HandleGetUser(r, ok) ==
  /\ handles[r].open
  /\ LET token == getSessionId(handles[r])
         found == getUserFromSessionId(token, ok)
     IN  IF token = Undefined
         THEN /\ last' = Done("handle.getUser", r, Null, NoCall)
              /\ UNCHANGED handles
         ELSE IF found = Rejected
         THEN /\ handles' = [handles EXCEPT ![r] = unsetSessionId(@)]
              /\ last' = [Done("handle.getUser", r, Null,
                               <<Call("getUserFromSessionId", token)>>)
                            EXCEPT !.logged = TRUE]
         ELSE /\ last' = Done("handle.getUser", r, UserRes(found),
                              <<Call("getUserFromSessionId", token)>>)
              /\ UNCHANGED handles
  /\ UNCHANGED <<records, nextId, pendingDeletes, cookie, clientVars, uiVars>>

\* variant: the record the session pointed at is removed on sign-in
SingInReplacesRecord(r, u, ok) ==
  /\ handles[r].open
  /\ IF ok
     THEN /\ nextId <= MaxRecords
          /\ records' = [i \in (DOMAIN records \cup {createSession(u).id})
                                 \ {getSessionId(handles[r])} |->
                           IF i = createSession(u).id THEN u ELSE records[i]]
          /\ nextId' = nextId + 1
          /\ handles' = [handles EXCEPT ![r] = singIn(@, createSession(u).id)]
          /\ last' = [Done("singIn", r, NoRes, <<Call("createSession", u)>>)
                        EXCEPT !.invoked = u]
     ELSE /\ last' = [Done("singIn", r, NoRes, <<Call("createSession", u)>>)
                        EXCEPT !.threw = TRUE, !.cause = "createSession", !.invoked = u]
          /\ UNCHANGED <<records, nextId, handles>>
  /\ UNCHANGED <<pendingDeletes, cookie, clientVars, uiVars>>

\* variant: the old session id is dropped before the record is created
SingInUnsetsFirst(r, u, ok) ==
  /\ handles[r].open
  /\ IF ok
     THEN /\ nextId <= MaxRecords
          /\ records' = StoreWith(createSession(u))
          /\ nextId' = nextId + 1
          /\ handles' = [handles EXCEPT ![r] = singIn(@, createSession(u).id)]
          /\ last' = [Done("singIn", r, NoRes, <<Call("createSession", u)>>)
                        EXCEPT !.invoked = u]
     ELSE /\ last' = [Done("singIn", r, NoRes, <<Call("createSession", u)>>)
                        EXCEPT !.threw = TRUE, !.cause = "createSession", !.invoked = u]
          /\ handles' = [handles EXCEPT ![r] = unsetSessionId(@)]
          /\ UNCHANGED <<records, nextId>>
  /\ UNCHANGED <<pendingDeletes, cookie, clientVars, uiVars>>

\* handle.singIn(user)
SingIn(r, u, ok) ==
  /\ handles[r].open
  /\ IF ok
     THEN /\ nextId <= MaxRecords
          /\ records' = StoreWith(createSession(u))
          /\ nextId' = nextId + 1
          /\ handles' = [handles EXCEPT ![r] = singIn(@, createSession(u).id)]
          /\ last' = [Done("singIn", r, NoRes, <<Call("createSession", u)>>)
                        EXCEPT !.invoked = u]
     ELSE /\ last' = [Done("singIn", r, NoRes, <<Call("createSession", u)>>)
                        EXCEPT !.threw = TRUE, !.cause = "createSession", !.invoked = u]
          /\ UNCHANGED <<records, nextId, handles>>
  /\ UNCHANGED <<pendingDeletes, cookie, clientVars, uiVars>>

\* handle.signOut(): the deletion is requested, not awaited
SignOut(r) ==
  /\ handles[r].open
  /\ handles' = [handles EXCEPT ![r] = signOut(@)]
  /\ pendingDeletes' = pendingDeletes \cup signOutDeletes(handles[r])
  /\ last' = Done("signOut", r, NoRes, NoCall)
  /\ UNCHANGED <<records, nextId, cookie, clientVars, uiVars>>

\* variant: a deletion that succeeded leaves the record in the store
DeleteSettlesKeeps(id, ok) ==
  /\ id \in pendingDeletes
  /\ pendingDeletes' = pendingDeletes \ {id}
  /\ UNCHANGED records
  /\ last' = [Done("delete", 0, NoRes, <<Call("deleteSession", id)>>)
                EXCEPT !.logged = ~(ok /\ id \in DOMAIN records)]
  /\ UNCHANGED <<nextId, cookie, handles, clientVars, uiVars>>

\* prisma.session.delete settles: the record goes, or the failure is logged
DeleteSettles(id, ok) ==
  /\ id \in pendingDeletes
  /\ pendingDeletes' = pendingDeletes \ {id}
  /\ IF ok /\ id \in DOMAIN records
     THEN /\ records' = StoreWithout(id)
          /\ last' = Done("delete", 0, NoRes, <<Call("deleteSession", id)>>)
     ELSE /\ UNCHANGED records
          /\ last' = [Done("delete", 0, NoRes, <<Call("deleteSession", id)>>)
                        EXCEPT !.logged = TRUE]
  /\ UNCHANGED <<nextId, cookie, handles, clientVars, uiVars>>

\* handle.commit()
Commit(r) ==
  /\ handles[r].open
  /\ last' = Done("commit", r, commit(handles[r]), NoCall)
  /\ UNCHANGED <<records, nextId, pendingDeletes, cookie, handles, clientVars, uiVars>>

\* handle.getHeaders(headers)
GetHeaders(r, hd) ==
  /\ handles[r].open
  /\ last' = [Done("getHeaders", r, HeadersRes(getHeaders(handles[r], hd)), NoCall)
                EXCEPT !.given = hd]
  /\ UNCHANGED <<records, nextId, pendingDeletes, cookie, handles, clientVars, uiVars>>

\* --------------------------------------------- module-level functions
\* the session id the request's cookie carries, as getUser(request) reads it
RequestToken(r) == getSessionId(getSession(cookie[r]))

\* variant: the rejection of the lookup is not caught
getUserNoCatch(r, ok) ==
  IF RequestToken(r) = Undefined THEN NoUser
  ELSE getUserFromSessionId(RequestToken(r), ok)

\* getUser(request): the user, or null; a failed lookup is logged and swallowed
getUser(r, ok) ==
  IF RequestToken(r) = Undefined THEN NoUser
  ELSE IF getUserFromSessionId(RequestToken(r), ok) = Rejected THEN NoUser
  ELSE getUserFromSessionId(RequestToken(r), ok)

\* variant: the lookup is made before the session id is examined
getUserCallsAlways(r) == <<Call("getUserFromSessionId", RequestToken(r))>>

\* the store calls getUser(request) makes
getUserCalls(r) ==
  IF RequestToken(r) = Undefined THEN NoCall
  ELSE <<Call("getUserFromSessionId", RequestToken(r))>>

getUserLogged(r, ok) ==
  /\ RequestToken(r) # Undefined
  /\ getUserFromSessionId(RequestToken(r), ok) = Rejected

GetUser(r, ok) ==
  /\ last' = [Done("getUser", r,
                   IF getUser(r, ok) = NoUser THEN Null
                   ELSE IF getUser(r, ok) = Rejected THEN NoRes
                   ELSE UserRes(getUser(r, ok)),
                   getUserCalls(r))
                EXCEPT !.logged = getUserLogged(r, ok),
                       !.threw = (getUser(r, ok) = Rejected),
                       !.cause = IF getUser(r, ok) = Rejected
                                 THEN "getUserFromSessionId" ELSE ""]
  /\ UNCHANGED <<records, nextId, pendingDeletes, cookie, handles, clientVars, uiVars>>

\* variant: the redirect to login without the sign-out
loginRedirectNoSignOut(r) ==
  redirect("/login", getHeaders(getSession(cookie[r]), NewHeaders))

\* the branch both guards take when getUser gave no user:
\*   const session = await getSession(request); session.signOut()
\*   return redirect('/login', {headers: await session.getHeaders()})
loginRedirect(r) ==
  redirect("/login", getHeaders(signOut(getSession(cookie[r])), NewHeaders))

\* variant: the role rejection signs out and attaches the session headers too
rootRedirectWithHeaders(r) ==
  redirect("/", getHeaders(signOut(getSession(cookie[r])), NewHeaders))

\* the admin guard's answer to a user who is not an admin: redirect('/')
rootRedirect(r) == redirect("/", NewHeaders)

\* requireUser(request, callback)
RequireUser(r, ok) ==
  /\ IF getUser(r, ok) = NoUser
     THEN /\ pendingDeletes' = pendingDeletes \cup signOutDeletes(getSession(cookie[r]))
          /\ last' = [Done("requireUser", r, loginRedirect(r), getUserCalls(r))
                        EXCEPT !.logged = getUserLogged(r, ok)]
     ELSE /\ last' = [Done("requireUser", r, callback(getUser(r, ok)), getUserCalls(r))
                        EXCEPT !.invoked = getUser(r, ok)]
          /\ UNCHANGED pendingDeletes
  /\ UNCHANGED <<records, nextId, cookie, handles, clientVars, uiVars>>

\* variant: the role is not examined
notAdminNever(user) == FALSE

\* user.role !== 'ADMIN'
notAdmin(user) == RoleOf(user) # "ADMIN"

\* requireAdminUser(request, callback)
RequireAdminUser(r, ok) ==
  /\ IF getUser(r, ok) = NoUser
     THEN /\ pendingDeletes' = pendingDeletes \cup signOutDeletes(getSession(cookie[r]))
          /\ last' = [Done("requireAdminUser", r, loginRedirect(r), getUserCalls(r))
                        EXCEPT !.logged = getUserLogged(r, ok)]
     ELSE IF notAdmin(getUser(r, ok))
     THEN /\ last' = Done("requireAdminUser", r, rootRedirect(r), getUserCalls(r))
          /\ UNCHANGED pendingDeletes
     ELSE /\ last' = [Done("requireAdminUser", r, callback(getUser(r, ok)), getUserCalls(r))
                        EXCEPT !.invoked = getUser(r, ok)]
          /\ UNCHANGED pendingDeletes
  /\ UNCHANGED <<records, nextId, cookie, handles, clientVars, uiVars>>

\* getUserSessionFromMagicLink(request): the token in the request URL validates
\* to email unless validation fails; fault names the collaborator call that
\* fails during this run ("none": all of them succeed)
Faults == {"none", "validateMagicLink", "getUserByEmail", "createSession"}

\* variant: the missing user is not noticed
noSuchUserNever(user) == FALSE

\* if (!user) return null
noSuchUser(user) == user = NoUser

\* variant: the token is validated after the sign-in instead of before it
GetUserSessionFromMagicLinkValidatesLast(r, email, fault) ==
  LET user == getUserByEmail(email, fault # "getUserByEmail")
      op == "getUserSessionFromMagicLink"
      validate == Call("validateMagicLink", "url")
      lookup == Call("getUserByEmail", email)
  IN
  IF user = Rejected
  THEN /\ last' = [Done(op, r, NoRes, <<lookup>>)
                     EXCEPT !.threw = TRUE, !.cause = "getUserByEmail"]
       /\ UNCHANGED <<records, nextId, pendingDeletes, cookie, handles, clientVars, uiVars>>
  ELSE IF noSuchUser(user)
  THEN /\ fault = "none"
       /\ last' = Done(op, r, Null, <<lookup>>)
       /\ UNCHANGED <<records, nextId, pendingDeletes, cookie, handles, clientVars, uiVars>>
  ELSE IF fault = "createSession"
  THEN /\ last' = [Done(op, r, NoRes, <<lookup, Call("createSession", user)>>)
                     EXCEPT !.threw = TRUE, !.cause = "createSession", !.invoked = user]
       /\ UNCHANGED <<records, nextId, pendingDeletes, cookie, handles, clientVars, uiVars>>
  ELSE /\ nextId <= MaxRecords
       /\ records' = StoreWith(createSession(user))
       /\ nextId' = nextId + 1
       /\ IF fault = "validateMagicLink"
          THEN /\ last' = [Done(op, r, NoRes,
                                <<lookup, Call("createSession", user), validate>>)
                             EXCEPT !.threw = TRUE, !.cause = "validateMagicLink"]
               /\ UNCHANGED handles
          ELSE /\ handles' = [handles EXCEPT ![r] =
                    singIn(getSession(cookie[r]), createSession(user).id)]
               /\ last' = [Done(op, r, HandleRes,
                                <<lookup, Call("createSession", user), validate>>)
                             EXCEPT !.invoked = user]
       /\ UNCHANGED <<pendingDeletes, cookie, clientVars, uiVars>>

\* getUserSessionFromMagicLink(request)
GetUserSessionFromMagicLink(r, email, fault) ==
  LET user == getUserByEmail(email, fault # "getUserByEmail")
      op == "getUserSessionFromMagicLink"
      validate == Call("validateMagicLink", "url")
      lookup == Call("getUserByEmail", email)
  IN
  IF fault = "validateMagicLink"
  THEN /\ last' = [Done(op, r, NoRes, <<validate>>)
                     EXCEPT !.threw = TRUE, !.cause = "validateMagicLink"]
       /\ UNCHANGED <<records, nextId, pendingDeletes, cookie, handles, clientVars, uiVars>>
  ELSE IF user = Rejected
  THEN /\ last' = [Done(op, r, NoRes, <<validate, lookup>>)
                     EXCEPT !.threw = TRUE, !.cause = "getUserByEmail"]
       /\ UNCHANGED <<records, nextId, pendingDeletes, cookie, handles, clientVars, uiVars>>
  ELSE IF noSuchUser(user)
  THEN /\ fault = "none"
       /\ last' = Done(op, r, Null, <<validate, lookup>>)
       /\ UNCHANGED <<records, nextId, pendingDeletes, cookie, handles, clientVars, uiVars>>
  ELSE IF fault = "createSession"
  THEN /\ last' = [Done(op, r, NoRes, <<validate, lookup, Call("createSession", user)>>)
                     EXCEPT !.threw = TRUE, !.cause = "createSession", !.invoked = user]
       /\ UNCHANGED <<records, nextId, pendingDeletes, cookie, handles, clientVars, uiVars>>
  ELSE /\ nextId <= MaxRecords
       /\ records' = StoreWith(createSession(user))
       /\ nextId' = nextId + 1
       /\ handles' = [handles EXCEPT ![r] =
            singIn(getSession(cookie[r]), createSession(user).id)]
       /\ last' = [Done(op, r, HandleRes, <<validate, lookup, Call("createSession", user)>>)
                     EXCEPT !.invoked = user]
       /\ UNCHANGED <<pendingDeletes, cookie, clientVars, uiVars>>

\* ------------------------------------------------- client session actions
authVars == <<records, nextId, pendingDeletes, cookie, handles>>

\* a new request arrives carrying cookie c for the auth session and cc for
\* the client identity
NewClientRequest(r, c, cc) ==
  /\ cookie[r] # c \/ clientCookie[r] # cc \/ handles[r].open \/ clients[r].open
  /\ cookie' = [cookie EXCEPT ![r] = c]
  /\ clientCookie' = [clientCookie EXCEPT ![r] = cc]
  /\ handles' = [handles EXCEPT ![r] = NoHandle]
  /\ clients' = [clients EXCEPT ![r] = NoHandle]
  /\ last' = Done("request", r, NoRes, NoCall)
  /\ UNCHANGED <<records, nextId, pendingDeletes, jar, nextUuid, uiVars>>

\* const client = await getClientSession(request)
GetClientSession(r) ==
  LET h == getClientSession(clientCookie[r], nextUuid)
      gen == generated(NoHandle, h, nextUuid)
  IN  /\ gen => nextUuid <= MaxClients
      /\ clients' = [clients EXCEPT ![r] = h]
      /\ nextUuid' = IF gen THEN nextUuid + 1 ELSE nextUuid
      /\ last' = Done("getClientSession", r, HandleRes, NoCall)
      /\ UNCHANGED <<authVars, jar, clientCookie, uiVars>>

\* client.getClientId()
GetClientId(r) ==
  LET h == getClientId(clients[r], nextUuid)
      gen == generated(clients[r], h, nextUuid)
  IN  /\ clients[r].open
      /\ gen => nextUuid <= MaxClients
      /\ clients' = [clients EXCEPT ![r] = h]
      /\ nextUuid' = IF gen THEN nextUuid + 1 ELSE nextUuid
      /\ last' = Done("getClientId", r, IdRes(clientIdOf(h)), NoCall)
      /\ UNCHANGED <<authVars, jar, clientCookie, uiVars>>

\* client.commit()
ClientCommit(r) ==
  /\ clients[r].open
  /\ last' = Done("client.commit", r, clientCommit(clients[r]), NoCall)
  /\ UNCHANGED <<authVars, clientVars, uiVars>>

\* client.getHeaders(headers)
ClientGetHeaders(r, hd) ==
  /\ clients[r].open
  /\ last' = [Done("client.getHeaders", r,
                   HeadersRes(clientGetHeaders(clients[r], hd)), NoCall)
                EXCEPT !.given = hd]
  /\ UNCHANGED <<authVars, clientVars, uiVars>>

\* the collection a getHeaders call returned is handed to the next call
Returned(r) ==
  /\ last.req = r
  /\ last.op \in {"getHeaders", "client.getHeaders"}
  /\ Len(last.result.headers.entries) < MaxHeaders

\* handle.getHeaders(headers), on the collection the last call returned
GetHeadersNext(r) == Returned(r) /\ GetHeaders(r, last.result.headers)

\* client.getHeaders(headers), on the collection the last call returned
ClientGetHeadersNext(r) == Returned(r) /\ ClientGetHeaders(r, last.result.headers)

\* ------------------------------------------------------------ the browser
\* a Set-Cookie entry replaces the browser's cookie of that name
RECURSIVE StoreCookies(_, _)
StoreCookies(j, es) ==
  IF es = <<>> THEN j
  ELSE StoreCookies(IF Head(es).cookie.name \in DOMAIN j
                    THEN [j EXCEPT ![Head(es).cookie.name] = Head(es).cookie]
                    ELSE j,
                    Tail(es))

\* the browser sends its cookies with the next request
BrowserRequest(r) ==
  /\ last.op \in {"idle", "respond"}
  /\ cookie' = [cookie EXCEPT ![r] = jar[CookieName]]
  /\ clientCookie' = [clientCookie EXCEPT ![r] = jar[ClientCookieName]]
  /\ handles' = [handles EXCEPT ![r] = NoHandle]
  /\ clients' = [clients EXCEPT ![r] = NoHandle]
  /\ last' = Done("request", r, NoRes, NoCall)
  /\ UNCHANGED <<records, nextId, pendingDeletes, jar, nextUuid, uiVars>>

Shapes == {"Headers", "Array", "Object"}
EmptyHeaders(sh) == [shape |-> sh, entries |-> <<>>]

\* a route that opened both sessions builds its response headers by passing
\* one collection through both getHeaders functions, in either order
BothHeaders(r, sh, authFirst) ==
  IF authFirst
  THEN clientGetHeaders(clients[r], getHeaders(handles[r], EmptyHeaders(sh)))
  ELSE getHeaders(handles[r], clientGetHeaders(clients[r], EmptyHeaders(sh)))

\* the route's response goes out and the browser stores its cookies
Respond(r, sh, authFirst) ==
  /\ handles[r].open
  /\ clients[r].open
  /\ jar' = StoreCookies(jar, SetCookies(BothHeaders(r, sh, authFirst)))
  /\ last' = Done("respond", r, HeadersRes(BothHeaders(r, sh, authFirst)), NoCall)
  /\ UNCHANGED <<authVars, clientCookie, clients, nextUuid, uiVars>>

\* a guard's redirect goes out and the browser stores its cookies
RespondRedirect(r) ==
  /\ last.req = r
  /\ last.result.kind = "redirect"
  /\ jar' = StoreCookies(jar, SetCookies(last.result.headers))
  /\ last' = Done("respond", r, HeadersRes(last.result.headers), NoCall)
  /\ UNCHANGED <<authVars, clientCookie, clients, nextUuid, uiVars>>

\* --------------------------------------------------- blog listing actions
serverVars == <<authVars, last, clientVars>>

\* the route renders with the loader's data: n posts match, rec is the slug
\* of the recommended post (or none), and the query is empty or not
BlogRenders(n, rec, searching) ==
  /\ page' = [matchingPosts |-> Posts(n), recommended |-> rec,
              isSearching |-> searching, indexToShow |-> initialIndexToShow]
  /\ UNCHANGED <<serverVars, search, teamUi>>

\* the query changes: other posts match and the index is reset
QueryChanges(n, searching) ==
  /\ page.matchingPosts # <<>> \/ page.isSearching
  /\ page' = [page EXCEPT !.matchingPosts = Posts(n), !.isSearching = searching,
                          !.indexToShow = initialIndexToShow]
  /\ UNCHANGED <<serverVars, search, teamUi>>

\* a click on 'Load more articles', offered while hasMorePosts
LoadMore ==
  /\ hasMorePosts(page)
  /\ page' = [page EXCEPT !.indexToShow = @ + PAGE_SIZE]
  /\ UNCHANGED <<serverVars, search, teamUi>>

\* ------------------------------------------------------ search box actions
\* the reader types w after what is in the box and the listing renders
TypeQuery(w) ==
  /\ search.typed < MaxTyped
  /\ search' = [query |-> search.query \o w, typed |-> search.typed + 1,
                teamPosts |-> teamPosts(search.query \o w)]
  /\ UNCHANGED <<serverVars, page, teamUi>>

\* the reader empties the box
ClearQuery ==
  /\ search.typed > 0
  /\ search' = [query |-> <<>>, typed |-> 0, teamPosts |-> teamPosts(<<>>)]
  /\ UNCHANGED <<serverVars, page, teamUi>>

NextFilter ==
  \/ \E w \in Typed : TypeQuery(w)
  \/ ClearQuery

SpecFilter == Init /\ [][NextFilter]_vars

\* ----------------------------------------------------- TeamProvider actions
\* a render with another user (login, logout); its effect waits to run. The
\* effects of a render run before the next render.
UserChanges(u) ==
  /\ teamUi.effect = NoEffect
  /\ u # teamUi.user
  /\ teamUi' = [teamUi EXCEPT !.user = u, !.effect = Effect(u), !.op = "user",
                              !.was = teamUi.team]
  /\ UNCHANGED <<serverVars, page, search>>

\* a consumer calls the exposed setTeam
SetTeam(t) ==
  /\ teamUi' = [teamUi EXCEPT !.team = t, !.op = "setTeam", !.was = teamUi.team]
  /\ UNCHANGED <<serverVars, page, search>>

\* variant: the effect resets nothing
RunEffectNoReset ==
  /\ teamUi.effect.pending
  /\ teamUi' = [teamUi EXCEPT !.effect = NoEffect, !.op = "effect", !.was = teamUi.team]
  /\ UNCHANGED <<serverVars, page, search>>

\* the effect runs with the user of the render that scheduled it
RunEffect ==
  /\ teamUi.effect.pending
  /\ teamUi' = [teamUi EXCEPT !.effect = NoEffect, !.op = "effect", !.was = teamUi.team,
                              !.team = IF teamUi.effect.user = NoUi THEN UNKNOWN ELSE @]
  /\ UNCHANGED <<serverVars, page, search>>

NextTeam ==
  \/ \E u \in UiUsers : UserChanges(u)
  \/ \E t \in teams \cup {UNKNOWN} : SetTeam(t)
  \/ RunEffect

SpecTeam == Init /\ [][NextTeam]_vars /\ WF_vars(RunEffect)

NextPaging ==
  \/ \E n \in 0..MaxPosts, rec \in 0..MaxPosts, searching \in BOOLEAN :
        BlogRenders(n, rec, searching)
  \/ \E n \in 0..MaxPosts, searching \in BOOLEAN : QueryChanges(n, searching)
  \/ LoadMore

SpecPaging == Init /\ [][NextPaging]_vars

\* ------------------------------------------------------------------ Next
\* the application: every function session.server.ts exports, and the handle
Next ==
  \/ \E r \in Reqs, c \in CookieInputs : NewRequest(r, c)
  \/ \E r \in Reqs : GetSession(r)
  \/ \E r \in Reqs : UnsetSessionId(r)
  \/ \E r \in Reqs, ok \in BOOLEAN : HandleGetUser(r, ok)
  \/ \E r \in Reqs, u \in Users, ok \in BOOLEAN : SingIn(r, u, ok)
  \/ \E r \in Reqs : SignOut(r)
  \/ \E id \in pendingDeletes, ok \in BOOLEAN : DeleteSettles(id, ok)
  \/ \E r \in Reqs : Commit(r)
  \/ \E r \in Reqs, hd \in HeaderInputs : GetHeaders(r, hd)
  \/ \E r \in Reqs, ok \in BOOLEAN : GetUser(r, ok)
  \/ \E r \in Reqs, ok \in BOOLEAN : RequireUser(r, ok)
  \/ \E r \in Reqs, ok \in BOOLEAN : RequireAdminUser(r, ok)
  \/ \E r \in Reqs, email \in Emails, fault \in Faults :
        GetUserSessionFromMagicLink(r, email, fault)

Spec == Init /\ [][Next]_vars

\* the session handle on its own, with a caller that also sets and unsets a
\* key of its own on handle.session
NextSession ==
  \/ \E r \in Reqs, c \in SessionCookieInputs : NewRequest(r, c)
  \/ \E r \in Reqs : GetSession(r)
  \/ \E r \in Reqs, v \in OtherValues : SessionSetKey(r, v)
  \/ \E r \in Reqs : SessionUnsetKey(r)
  \/ \E r \in Reqs : UnsetSessionId(r)
  \/ \E r \in Reqs, ok \in BOOLEAN : HandleGetUser(r, ok)
  \/ \E r \in Reqs, u \in Users, ok \in BOOLEAN : SingIn(r, u, ok)
  \/ \E r \in Reqs : SignOut(r)
  \/ \E r \in Reqs : Commit(r)
  \/ \E r \in Reqs, hd \in HeaderInputs : GetHeaders(r, hd)

SpecSession == Init /\ [][NextSession]_vars

\* the client-identity session next to the auth session: both are opened
\* from whatever cookies the request carries
NextClient ==
  \/ \E r \in Reqs, c \in CookieInputs, cc \in ClientCookieInputs : NewClientRequest(r, c, cc)
  \/ \E r \in Reqs : GetSession(r)
  \/ \E r \in Reqs, ok \in BOOLEAN : HandleGetUser(r, ok)
  \/ \E r \in Reqs, u \in Users, ok \in BOOLEAN : SingIn(r, u, ok)
  \/ \E r \in Reqs, ok \in BOOLEAN : GetUser(r, ok)
  \/ \E r \in Reqs : GetClientSession(r)
  \/ \E r \in Reqs : GetClientId(r)
  \/ \E r \in Reqs : ClientCommit(r)
  \/ \E r \in Reqs, hd \in HeaderInputs : ClientGetHeaders(r, hd)

SpecClient == Init /\ [][NextClient]_vars

\* building the response headers: the two getHeaders functions, called on a
\* collection of the caller's or on the one the previous call returned
NextHeaders ==
  \/ \E r \in Reqs, c \in CookieInputs, cc \in ClientCookieInputs : NewClientRequest(r, c, cc)
  \/ \E r \in Reqs : GetSession(r)
  \/ \E r \in Reqs : SingIn(r, "kody", TRUE)
  \/ \E r \in Reqs : GetClientSession(r)
  \/ \E r \in Reqs, hd \in CallerHeaders : GetHeaders(r, hd)
  \/ \E r \in Reqs, hd \in CallerHeaders : ClientGetHeaders(r, hd)
  \/ \E r \in Reqs : GetHeadersNext(r)
  \/ \E r \in Reqs : ClientGetHeadersNext(r)

SpecHeaders == Init /\ [][NextHeaders]_vars

\* a request is being handled: it arrived and was not answered yet
InRequest == last.op \notin {"idle", "respond"}

\* a browser keeping both cookies across requests: each request carries the
\* browser's cookies and each response's Set-Cookie entries are stored
NextBrowser ==
  \/ \E r \in Reqs : BrowserRequest(r)
  \/ \E r \in Reqs : InRequest /\ GetSession(r)
  \/ \E r \in Reqs : InRequest /\ UnsetSessionId(r)
  \/ \E r \in Reqs, ok \in BOOLEAN : InRequest /\ HandleGetUser(r, ok)
  \/ \E r \in Reqs, ok \in BOOLEAN : InRequest /\ SingIn(r, "kody", ok)
  \/ \E r \in Reqs : InRequest /\ SignOut(r)
  \/ \E r \in Reqs : InRequest /\ Commit(r)
  \/ \E r \in Reqs : InRequest /\ RequireUser(r, TRUE)
  \/ \E r \in Reqs : InRequest /\ RequireAdminUser(r, TRUE)
  \/ \E r \in Reqs : InRequest /\ GetUserSessionFromMagicLink(r, "hannah@kcd.dev", "none")
  \/ \E r \in Reqs : InRequest /\ GetClientSession(r)
  \/ \E r \in Reqs, sh \in Shapes, authFirst \in BOOLEAN : InRequest /\ Respond(r, sh, authFirst)
  \/ \E r \in Reqs : InRequest /\ RespondRedirect(r)

SpecBrowser == Init /\ [][NextBrowser]_vars

\* two requests handled at the same time, their steps interleaved in any
\* order; each has its own cookie header and its own handle
NextConcurrent ==
  \/ \E r \in Concurrent, c \in CookieInputs : NewRequest(r, c)
  \/ \E r \in Concurrent : GetSession(r)
  \/ \E r \in Concurrent : SessionSetKey(r, "x")
  \/ \E r \in Concurrent : SessionUnsetKey(r)
  \/ \E r \in Concurrent : SingIn(r, "kody", TRUE)
  \/ \E r \in Concurrent : SignOut(r)

SpecConcurrent == Init /\ [][NextConcurrent]_vars

\* request 1 signs in and out on its handle while request 2, concurrent or
\* later, presents a cookie of its own choice and asks for the user
NextSignOut ==
  \/ \E r \in Concurrent, c \in CookieInputs : NewRequest(r, c)
  \/ GetSession(1)
  \/ SingIn(1, "kody", TRUE)
  \/ SignOut(1)
  \/ \E id \in pendingDeletes, ok \in BOOLEAN : DeleteSettles(id, ok)
  \/ \E ok \in BOOLEAN : GetUser(2, ok)

SpecSignOut == Init /\ [][NextSignOut]_vars

\* ------------------------------------------------------------ properties
Magic == "getUserSessionFromMagicLink"
GuardOps == {"requireUser", "requireAdminUser"}

\* the session id in the cookie of the request the last operation served
Tok == RequestToken(last.req)

\* the lookup the last operation made was answered with the record's user
Found == Tok # Undefined /\ Tok \in DOMAIN records /\ ~last.logged

\* the handle of the request the last operation served
H == handles[last.req]

\* the session's contents as a mapping, insertion order forgotten
Contents(s) == {<<s[i][1], s[i][2]>> : i \in DOMAIN s}

\* the last operation signed a user in on the handle
SignedIn(l) ==
  \/ l.op = "singIn" /\ ~l.threw
  \/ l.op = Magic /\ l.result.kind = "handle"

\* C1: getUser(request) for a request whose cookie carries no session id
\* (no Cookie header, a forged cookie, or a session without the key) returns
\* null and makes no call to the store.
C1_NoSessionIdNoLookup ==
  last.op = "getUser" /\ Tok = Undefined =>
    /\ last.result = Null
    /\ last.calls = NoCall
    /\ ~last.threw
    /\ ~last.logged

C1_Witness ==
  /\ last.op = "getUser"
  /\ cookie[last.req] = NoCookie
  /\ last.result = Null
  /\ DOMAIN records # {}

\* C2 as stated: requireUser with no authenticated user does not invoke the
\* continuation and returns a redirect to /login that carries a Set-Cookie
\* header.
C2_LoginRedirectAlwaysSetsCookie ==
  last.op = "requireUser" /\ ~Found =>
    /\ last.invoked = NoUser
    /\ last.result.kind = "redirect"
    /\ last.result.location = "/login"
    /\ HasSetCookie(last.result.headers)

\* C2 amended: requireUser with no authenticated user does not invoke the
\* continuation and returns a redirect to /login; the redirect carries a
\* Set-Cookie header exactly when the request's cookie held a session id, and
\* then it carries one, whose session has no session id.
C2_LoginRedirectClearsStaleId ==
  last.op = "requireUser" /\ ~Found =>
    /\ last.invoked = NoUser
    /\ ~last.threw
    /\ last.result.kind = "redirect"
    /\ last.result.location = "/login"
    /\ HasSetCookie(last.result.headers) <=> Tok # Undefined
    /\ HasSetCookie(last.result.headers) =>
         /\ Len(SetCookies(last.result.headers)) = 1
         /\ getSessionId(getSession(SetCookies(last.result.headers)[1].cookie)) = Undefined

C2_Witness ==
  /\ last.op = "requireUser"
  /\ Tok # Undefined
  /\ Tok \notin DOMAIN records
  /\ last.result.location = "/login"
  /\ HasSetCookie(last.result.headers)

\* C3: requireAdminUser for a request whose user is not an ADMIN does not
\* invoke the continuation, returns a redirect to "/" without a Set-Cookie
\* header, and changes neither the store, the pending deletions nor any
\* session.
C3_NonAdminRedirectsHome ==
  [][ (last'.op = "requireAdminUser" /\ Found' /\ RoleOf(records'[Tok']) # "ADMIN") =>
        /\ last'.invoked = NoUser
        /\ last'.result = redirect("/", NewHeaders)
        /\ ~HasSetCookie(last'.result.headers)
        /\ UNCHANGED <<records, nextId, pendingDeletes, cookie, handles>> ]_vars

C3_Witness ==
  /\ last.op = "requireAdminUser"
  /\ last.result.location = "/"
  /\ Tok \in DOMAIN records
  /\ RoleOf(records[Tok]) = "MEMBER"
  /\ H.open
  /\ getSessionId(H) = Tok

\* C4: a guard ends in exactly one of: redirect to /login (no user), redirect
\* to "/" (admin guard, user not an ADMIN), or the continuation's result; the
\* continuation is invoked exactly in the third case, with the resolved user,
\* and its result is returned as it is.
C4_GuardOutcomes ==
  last.op \in GuardOps =>
    LET allowed == Found /\ (last.op = "requireAdminUser" => RoleOf(records[Tok]) = "ADMIN")
        toLogin == last.result.kind = "redirect" /\ last.result.location = "/login"
        toRoot  == last.result.kind = "redirect" /\ last.result.location = "/"
    IN  /\ ~last.threw
        /\ last.result.kind \in {"redirect", "response"}
        /\ toLogin <=> ~Found
        /\ toRoot <=> (Found /\ ~allowed)
        /\ (last.result.kind = "response") <=> allowed
        /\ (last.invoked # NoUser) <=> allowed
        /\ allowed => last.invoked = records[Tok] /\ last.result = callback(records[Tok])

C4_Witness ==
  /\ last.op = "requireAdminUser"
  /\ last.result.kind = "response"
  /\ last.invoked = "kody"

\* C5: commit() on a handle on which nothing mutating was called since it
\* was opened returns null, however many times it is called.
C5_UntouchedCommitIsNull ==
  last.op = "commit" /\ ~touched(H) => last.result = Null

C5_Witness ==
  /\ last.op = "commit"
  /\ ~touched(H)
  /\ H.session # <<>>
  /\ last.result = Null

\* C6 as stated: commit() returns null exactly when the session's contents
\* equal its contents at open, whatever calls produced them.
C6_CommitNullIffSameContents ==
  last.op = "commit" =>
    (last.result = Null <=> Contents(H.session) = Contents(parseCookie(H.initialValue)))

\* C6 amended: commit() returns null exactly when the session's entries, in
\* insertion order, equal its entries at open; for a session opened with at
\* most one entry (the empty one included: set then unset gives null) that is
\* exactly when the contents are equal.
C6_CommitNullIffSameEntries ==
  last.op = "commit" =>
    LET atOpen == parseCookie(H.initialValue)
    IN  /\ last.result = Null <=> H.session = atOpen
        /\ Len(atOpen) <= 1 =>
             (last.result = Null <=> Contents(H.session) = Contents(atOpen))
        /\ last.result # Null => last.result = CookieRes(commitSession(H.session))

C6_Witness ==
  /\ last.op = "commit"
  /\ cookie[last.req] = NoCookie
  /\ H.mutations = "set"
  /\ H.session = <<>>
  /\ last.result = Null

\* C7: when signIn completes on a handle, the handle's session id is the id
\* of the record just created for that user; and a getUser on that handle
\* right after looks that id up and, when the store answers, returns the user.
C7_SignInThenGetUser ==
  [][ /\ SignedIn(last') =>
           /\ getSessionId(handles'[last'.req]) = IdOf(nextId)
           /\ IdOf(nextId) \notin DOMAIN records
           /\ IdOf(nextId) \in DOMAIN records'
           /\ records'[IdOf(nextId)] = last'.invoked
      /\ (SignedIn(last) /\ last'.op = "handle.getUser" /\ last'.req = last.req) =>
           /\ last'.calls = <<Call("getUserFromSessionId", getSessionId(H))>>
           /\ \/ last'.logged
              \/ /\ last'.result = UserRes(last.invoked)
                 /\ getSessionId(handles'[last.req]) = getSessionId(H) ]_vars

C7_Witness ==
  /\ last.op = "handle.getUser"
  /\ last.result.kind = "user"
  /\ Tok = Undefined
  /\ last.calls = <<Call("getUserFromSessionId", getSessionId(H))>>
  /\ records[getSessionId(H)] = last.result.user

\* C8: getUser(request) never throws; when the lookup fails (id not found, or
\* the store call fails) it returns null, as for a request without a session
\* id, and it changes nothing.
C8_GetUserSwallowsLookupFailure ==
  [][ last'.op = "getUser" =>
        /\ ~last'.threw
        /\ (Tok' = Undefined \/ Tok' \notin DOMAIN records' \/ last'.logged) =>
             last'.result = Null
        /\ last'.result # Null => last'.result = UserRes(records'[Tok'])
        /\ UNCHANGED <<records, nextId, pendingDeletes, cookie, handles>> ]_vars

C8_Witness ==
  /\ last.op = "getUser"
  /\ Tok \in DOMAIN records
  /\ last.logged
  /\ last.result = Null

\* C9: no failure of a store call reaches a caller: the only operation that
\* throws is the magic-link sign-in, and only because the token did not
\* validate.
C9_OnlyValidationThrows ==
  last.threw => last.op = Magic /\ last.cause = "validateMagicLink"

\* C10: the magic-link sign-in for a token whose email belongs to no user
\* (the lookup having answered) returns null, does not throw, does not call
\* createSession, and leaves the store and every session as they were.
C10_UnknownEmailGivesNull ==
  [][ (/\ last'.op = Magic
       /\ Len(last'.calls) >= 2
       /\ last'.calls[2].arg \notin {EmailOf(u) : u \in Users}
       /\ last'.cause # "getUserByEmail") =>
        /\ last'.result = Null
        /\ ~last'.threw
        /\ Len(last'.calls) = 2
        /\ UNCHANGED <<records, nextId, pendingDeletes, cookie, handles>> ]_vars

C10_Witness ==
  /\ last.op = Magic
  /\ last.result = Null
  /\ last.calls[2] = Call("getUserByEmail", "nobody@kcd.dev")
  /\ DOMAIN records # {}

\* C11: when the magic-link token does not validate, the sign-in throws
\* after the validation call alone: no user lookup, no session, no record,
\* and the store and every session are as they were.
C11_InvalidTokenThrowsFirst ==
  [][ (last'.op = Magic /\ last'.cause = "validateMagicLink") =>
        /\ last'.threw
        /\ last'.calls = <<Call("validateMagicLink", "url")>>
        /\ last'.result = NoRes
        /\ UNCHANGED <<records, nextId, pendingDeletes, cookie, handles>> ]_vars

C11_Witness ==
  /\ last.op = Magic
  /\ last.threw
  /\ last.cause = "validateMagicLink"
  /\ nextId <= MaxRecords
  /\ ~H.open

\* C12: when the token validates and the email belongs to a user, the
\* magic-link sign-in returns a handle whose session id is the id of a record
\* created in this call for exactly that user, and whose commit() gives a
\* cookie value (carrying that id).
C12_MagicLinkSignsIn ==
  [][ (/\ last'.op = Magic
       /\ ~last'.threw
       /\ Len(last'.calls) >= 2
       /\ last'.calls[2].arg \in {EmailOf(u) : u \in Users}) =>
        LET h == handles'[last'.req]
            id == IdOf(nextId)
        IN  /\ last'.result = HandleRes
            /\ h.open
            /\ getSessionId(h) = id
            /\ id \notin DOMAIN records
            /\ DOMAIN records' = DOMAIN records \cup {id}
            /\ \A i \in DOMAIN records : records'[i] = records[i]
            /\ records'[id] \in Users
            /\ EmailOf(records'[id]) = last'.calls[2].arg
            /\ commit(h).kind = "cookie"
            /\ getSessionId(getSession(commit(h).value)) = id ]_vars

C12_Witness ==
  /\ last.op = Magic
  /\ last.result = HandleRes
  /\ Tok # Undefined
  /\ getSessionId(H) # Tok
  /\ records[getSessionId(H)] = "hannah"
  /\ commit(H).kind = "cookie"

\* C13: signOut on a handle holding a session id leaves the key unset at
\* once (what commit() gives next carries no session id), only requests the
\* deletion of the record, and the settling of that deletion, whether it
\* succeeds or fails, changes no session and throws nothing.
C13_SignOutIsLocal ==
  [][ /\ (last'.op = "signOut" /\ getSessionId(handles[last'.req]) # Undefined) =>
           LET h == handles'[last'.req]
           IN  /\ getSessionId(h) = Undefined
               /\ commit(h).kind = "cookie" =>
                    getSessionId(getSession(commit(h).value)) = Undefined
               /\ commit(h).kind = "null" =>
                    getSessionId(getSession(h.initialValue)) = Undefined
               /\ getSessionId(handles[last'.req]) \in pendingDeletes'
               /\ records' = records
               /\ ~last'.threw
      /\ last'.op = "delete" =>
           /\ handles' = handles
           /\ cookie' = cookie
           /\ ~last'.threw ]_vars

C13_Witness ==
  /\ last.op = "delete"
  /\ last.logged
  /\ last.calls[1].arg \in DOMAIN records
  /\ \E r \in Reqs :
       /\ handles[r].open
       /\ touched(handles[r])
       /\ getSessionId(getSession(handles[r].initialValue)) = last.calls[1].arg
       /\ getSessionId(handles[r]) = Undefined

\* C14: signIn(user) calls createSession for the user and sets the session
\* id to the id of the record it got; it returns no cookie and no headers;
\* and when createSession fails, the session and the store are as they were.
C14_SignInCreatesThenSets ==
  [][ last'.op = "singIn" =>
        LET r == last'.req
            id == IdOf(nextId)
        IN  /\ last'.calls = <<Call("createSession", last'.invoked)>>
            /\ last'.result = NoRes
            /\ cookie' = cookie
            /\ pendingDeletes' = pendingDeletes
            /\ IF last'.threw
               THEN UNCHANGED <<handles, records, nextId>>
               ELSE /\ id \notin DOMAIN records
                    /\ DOMAIN records' = DOMAIN records \cup {id}
                    /\ records'[id] = last'.invoked
                    /\ handles'[r].session = SessionSet(handles[r].session, sessionIdKey, id)
                    /\ handles'[r].initialValue = handles[r].initialValue ]_vars

C14_Witness ==
  /\ last.op = "singIn"
  /\ last.threw
  /\ H.open
  /\ ~touched(H)
  /\ getSessionId(H) \in DOMAIN records

\* ------------------------------------------- properties: headers, client
HeaderOps == {"getHeaders", "client.getHeaders"}

\* the client handle of the request the last operation served
CH == clients[last.req]

\* what the handle the last getHeaders call was made on commits
Committed == IF last.op = "getHeaders" THEN commit(H) ELSE clientCommit(CH)

OtherEntries(hd) == SelectSeq(hd.entries, LAMBDA e : e.name # SetCookie)

\* the Set-Cookie entries of a collection that carry the cookie named n
CookiesNamed(hd, n) == SelectSeq(SetCookies(hd), LAMBDA e : e.cookie.name = n)

\* the client id a client cookie carries, as getClientSession reads it
CarriedId(c) == SessionGet(clientStorage_getSession(c), clientIdKey)

C16_OneSetCookiePerNamespace ==
  last.op \in HeaderOps =>
    /\ Len(CookiesNamed(last.result.headers, CookieName)) <= 1
    /\ Len(CookiesNamed(last.result.headers, ClientCookieName)) <= 1
    /\ CookiesNamed(last.result.headers, CookieName) # <<>> => touched(H)
    /\ CookiesNamed(last.result.headers, ClientCookieName) # <<>> => touched(CH)

\* C17: getClientSession on a cookie that carries a client id gives a handle
\* with that id and generates nothing; on any other cookie it gives an id not
\* given before; and opening again with what the handle commits (or, when it
\* commits nothing, with the same cookie) gives the same id again. What the
\* browser stores from a response carries the id of that request's handle.
C17_ClientIdRoundTrip ==
  [][ /\ last'.op = "getClientSession" =>
           LET r == last'.req
               h == clients'[r]
               out == IF clientCommit(h).kind = "cookie"
                      THEN clientCommit(h).value ELSE clientCookie[r]
               again == getClientSession(out, nextUuid')
           IN  /\ IF isString(CarriedId(clientCookie[r]))
                  THEN clientIdOf(h) = CarriedId(clientCookie[r]) /\ nextUuid' = nextUuid
                  ELSE /\ clientIdOf(h) = uuid(nextUuid)
                       /\ uuid(nextUuid) \notin Issued
                       /\ nextUuid' = nextUuid + 1
               /\ clientIdOf(again) = clientIdOf(h)
               /\ clientCommit(again) = Null
      /\ (last'.op = "respond" /\ jar'[ClientCookieName] # jar[ClientCookieName]) =>
           CarriedId(jar'[ClientCookieName]) = clientIdOf(clients[last'.req]) ]_vars

C17_Witness ==
  /\ last.op = "getClientSession"
  /\ jar[ClientCookieName] = clientCookie[last.req]
  /\ isString(CarriedId(clientCookie[last.req]))
  /\ clientIdOf(CH) = CarriedId(jar[ClientCookieName])
  /\ DOMAIN records # {}
  /\ nextUuid = 2

\* C18: a client handle always holds a string client id, from the moment
\* getClientSession returns and whatever cookie came in; getClientId returns
\* that id, leaves the session as it is and generates no identifier.
C18_ClientIdAlwaysPresent ==
  [][ /\ \A r \in Reqs : clients'[r].open =>
           /\ isString(clientIdOf(clients'[r]))
           /\ clientIdOf(clients'[r]) \in {uuid(n) : n \in 1..(nextUuid' - 1)}
      /\ last'.op = "getClientId" =>
           /\ last'.result = IdRes(clientIdOf(clients[last'.req]))
           /\ clients' = clients
           /\ nextUuid' = nextUuid ]_vars

C18_Witness ==
  /\ last.op = "getClientId"
  /\ clientCookie[last.req] = ForgedClientCookie
  /\ last.result.id = uuid(2)

\* the operations of the auth session
AuthOps == {"getSession", "singIn", "signOut", "handle.getUser", "unsetSessionId",
            "commit", "requireUser", "requireAdminUser", Magic}

C20_BadCookieIsNoCookie ==
  [][ /\ (last'.op = "getSession" /\ cookie[last'.req] \in {NoCookie, ForgedCookie}) =>
           /\ ~last'.threw
           /\ handles'[last'.req] = getSession(NoCookie)
           /\ handles'[last'.req].session = <<>>
           /\ getSessionId(handles'[last'.req]) = Undefined
      /\ (last'.op = "getClientSession"
            /\ clientCookie[last'.req] \in {NoCookie, ForgedClientCookie}) =>
           /\ ~last'.threw
           /\ clients'[last'.req] = getClientSession(NoCookie, nextUuid)
           /\ clients'[last'.req].initialValue = clientStorage_commitSession(<<>>)
      /\ (last'.op = "getUser" /\ cookie[last'.req] \in {NoCookie, ForgedCookie}) =>
           /\ ~last'.threw
           /\ last'.result = Null
           /\ last'.calls = NoCall
      /\ (last'.op = "handle.getUser" /\ cookie[last'.req] \in {NoCookie, ForgedCookie}
            /\ ~touched(handles[last'.req])) =>
           /\ ~last'.threw
           /\ last'.result = Null
           /\ last'.calls = NoCall ]_vars

C20_Witness ==
  /\ last.op = "handle.getUser"
  /\ cookie[last.req] = ForgedCookie
  /\ IdOf(1) \in DOMAIN records
  /\ ~touched(H)
  /\ last.result = Null
  /\ CH.open
  /\ clientCookie[last.req] = ForgedClientCookie
  /\ CH.initialValue = clientStorage_commitSession(<<>>)

\* ---------------------------------------- properties: concurrent requests
\* the operations that mutate the session of a handle
MutatingOps == {"set", "unset", "unsetSessionId", "singIn", "signOut"}

\* C21: a mutation made through one request's handle (set, unset, signIn,
\* signOut) leaves every other request's cookie, session contents and form
\* at open as they were, and so the value the other handle's commit() gives;
\* a new request or a new handle of one request changes no other's either.
C21_HandlesAreIsolated ==
  [][ last'.op \in MutatingOps \cup {"request", "getSession"} =>
        \A q \in Concurrent \ {last'.req} :
          /\ handles'[q] = handles[q]
          /\ cookie'[q] = cookie[q]
          /\ commit(handles'[q]) = commit(handles[q]) ]_vars

C21_Witness ==
  /\ last.op = "signOut"
  /\ last.req = 1
  /\ cookie[1] = cookie[2]
  /\ handles[1].open /\ handles[2].open
  /\ getSessionId(handles[1]) = Undefined
  /\ getSessionId(handles[2]) \in DOMAIN records
  /\ commit(handles[1]).kind = "cookie"
  /\ commit(handles[2]) = Null

\* C22: a guard requests the deletion of a session record only when that
\* record does not resolve to a user: a record that is in the store is never
\* put up for deletion by requireUser or requireAdminUser.
C22_GuardSparesValidRecords ==
  [][ last'.op \in GuardOps =>
        \A id \in pendingDeletes' \ pendingDeletes : id \notin DOMAIN records ]_vars

\* the records whose deletion completed
Deleted == Allocated \ DOMAIN records

\* C24: signOut itself removes no record; the record goes when the deletion
\* it requested completes successfully and stays when the deletion fails; a
\* record that went never comes back. getUser for a cookie carrying the id
\* of a record that went returns null, and for a cookie carrying the id of a
\* record still in the store (deletion pending or failed) it returns the
\* record's user whenever the lookup succeeds.
C24_SignedOutOnceDeleted ==
  [][ /\ last'.op = "signOut" => records' = records
      /\ last'.op = "delete" =>
           IF last'.logged THEN records' = records
           ELSE /\ last'.calls[1].arg \notin DOMAIN records'
                /\ \A id \in DOMAIN records \ {last'.calls[1].arg} :
                     id \in DOMAIN records' /\ records'[id] = records[id]
      /\ \A id \in Deleted : id \notin DOMAIN records'
      /\ last'.op = "getUser" =>
           LET t == RequestToken(last'.req)
           IN  /\ t \in Deleted => last'.result = Null
               /\ (t \in DOMAIN records /\ ~last'.logged) =>
                    last'.result = UserRes(records[t]) ]_vars

\* a request resolves the user from the cookie another request signed out
\* with, after the deletion failed
C24_Witness ==
  /\ last.op = "getUser"
  /\ last.req = 2
  /\ last.result.kind = "user"
  /\ cookie[2] = cookie[1]
  /\ handles[1].open
  /\ touched(handles[1])
  /\ getSessionId(handles[1]) = Undefined
  /\ getSessionId(getSession(cookie[1])) \in DOMAIN records
  /\ pendingDeletes = {}

\* what both getUser functions do when the lookup fails, apart from commit():
\* both return null; the handle's getUser unsets the session id of its own
\* session; getUser(request) changes no session
FailedLookupEffects ==
  /\ (last'.op = "handle.getUser" /\ last'.logged) =>
       /\ last'.result = Null
       /\ ~last'.threw
       /\ handles'[last'.req] = unsetSessionId(handles[last'.req])
       /\ getSessionId(handles'[last'.req]) = Undefined
  /\ (last'.op = "getUser" /\ last'.logged) =>
       /\ last'.result = Null
       /\ ~last'.threw
       /\ handles' = handles

\* C25 as stated: after the handle's getUser failed its lookup, commit()
\* gives a cookie value, and that value carries no session id.
C25_FailedLookupCommitsCookie ==
  [][ /\ FailedLookupEffects
      /\ (last'.op = "handle.getUser" /\ last'.logged) =>
           /\ commit(handles'[last'.req]).kind = "cookie"
           /\ getSessionId(getSession(commit(handles'[last'.req]).value)) = Undefined
    ]_vars

\* C25 amended: after the handle's getUser failed its lookup, commit() gives
\* a cookie value without session id when the session at open held a session
\* id, and null when it held none (the id was set by singIn in this request),
\* in which case the form at open carries no session id either.
C25_FailedLookupDropsId ==
  [][ /\ FailedLookupEffects
      /\ (last'.op = "handle.getUser" /\ last'.logged) =>
           LET h == handles'[last'.req]
               atOpen == getSessionId(getSession(h.initialValue))
           IN  IF atOpen # Undefined
               THEN /\ commit(h).kind = "cookie"
                    /\ getSessionId(getSession(commit(h).value)) = Undefined
               ELSE commit(h) = Null
    ]_vars

C25_Witness ==
  /\ last.op = "handle.getUser"
  /\ last.logged
  /\ Tok = Undefined
  /\ DOMAIN records # {}
  /\ touched(H)
  /\ getSessionId(H) = Undefined
  /\ commit(H) = Null

\* C26: a successful signIn or magic-link sign-in adds exactly one record,
\* under an id the store never held, leaves every existing record as it was
\* and requests no deletion; the record the session (or the request's
\* cookie) pointed at before is still there, while the session now holds the
\* new id. A sign-in that fails or finds no user changes no record. Each
\* successful call thus adds a record of its own.
C26_SignInOnlyAddsRecords ==
  [][ last'.op \in {"singIn", Magic} =>
        LET r == last'.req
            new == IdOf(nextId)
            before == IF last'.op = "singIn" THEN getSessionId(handles[r])
                      ELSE RequestToken(r)
        IN  /\ pendingDeletes' = pendingDeletes
            /\ \A id \in DOMAIN records :
                 id \in DOMAIN records' /\ records'[id] = records[id]
            /\ IF SignedIn(last')
               THEN /\ new \notin Allocated
                    /\ DOMAIN records' = DOMAIN records \cup {new}
                    /\ Cardinality(DOMAIN records') = Cardinality(DOMAIN records) + 1
                    /\ getSessionId(handles'[r]) = new
                    /\ new # before
                    /\ before \in DOMAIN records => before \in DOMAIN records'
               ELSE records' = records ]_vars

\* the same magic link used twice: two records of the same user, the session
\* holding the second while the cookie still names the first
C26_Witness ==
  /\ last.op = Magic
  /\ last.result = HandleRes
  /\ Tok = IdOf(1)
  /\ getSessionId(H) = IdOf(2)
  /\ DOMAIN records = {IdOf(1), IdOf(2)}
  /\ records[IdOf(1)] = records[IdOf(2)]

\* C27: a client handle's commit() gives a cookie value exactly when the
\* request's cookie carried no client id, and null when it carried one; this
\* is so from the moment the handle is returned and after any getClientId,
\* and it is what a commit() call returns.
C27_ClientCookieIssuedOnce ==
  /\ \A r \in Reqs : clients[r].open =>
       /\ (clientCommit(clients[r]).kind = "cookie") <=>
            ~isString(CarriedId(clientCookie[r]))
       /\ (clientCommit(clients[r]) = Null) <=> isString(CarriedId(clientCookie[r]))
       /\ clientCommit(clients[r]).kind = "cookie" =>
            /\ CarriedId(clientCommit(clients[r]).value) = clientIdOf(clients[r])
            /\ touched(clients[r])
  /\ last.op = "client.commit" => last.result = clientCommit(CH)

C27_Witness ==
  /\ last.op = "client.commit"
  /\ last.result = Null
  /\ CarriedId(clientCookie[last.req]) = uuid(2)
  /\ clientIdOf(CH) = uuid(2)

\* the last getHeaders call was given a collection that already carried the
\* other session's cookie, and had a value of its own to write
SecondOfBoth ==
  \/ /\ last.op = "getHeaders"
     /\ CookiesNamed(last.given, ClientCookieName) # <<>>
     /\ commit(H).kind = "cookie"
  \/ /\ last.op = "client.getHeaders"
     /\ CookiesNamed(last.given, CookieName) # <<>>
     /\ clientCommit(CH).kind = "cookie"

\* C23: when both getHeaders have written into one collection, in either
\* order, the collection carries the Set-Cookie value of the auth session
\* and that of the client session, whatever its shape.
C23_BothCookiesInOneCollection ==
  SecondOfBoth =>
    /\ CookiesNamed(last.result.headers, CookieName) # <<>>
    /\ CookiesNamed(last.result.headers, ClientCookieName) # <<>>

\* ------------------------------------------------ properties: blog listing
Shown(p) == {posts(p)[i] : i \in DOMAIN posts(p)}

\* C28: whenever the 'Load more' button is not offered, every matching post
\* other than the recommended one is displayed.
C28_NoButtonMeansAllShown ==
  ~hasMorePosts(page) =>
    \A i \in DOMAIN page.matchingPosts :
      page.matchingPosts[i] # page.recommended => page.matchingPosts[i] \in Shown(page)

\* a query with a valid team token
HasValidToken(q) == leaders(q) # {} \/ nonLeaders(q) # {}

\* a query with a token that names no team of the site
HasUnknownToken(q) ==
  \E i \in DOMAIN Matches(q, 1) : ~isTeam(toUpperCase(Matches(q, 1)[i].team))

\* C29: with a valid team token in the query a post passes the team filter
\* exactly when its leading team is named by a leader: token, or there is a
\* !leader: token and no !leader: token names its leading team (a post
\* without leading team included); without a valid token every post passes,
\* tokens that name an unknown team counting for nothing.
C29_TeamFilter ==
  LET q == search.query
  IN  /\ HasValidToken(q) =>
           \A post \in allPosts :
             post \in search.teamPosts <=>
               \/ getLeadingTeamForSlug(post) \in leaders(q)
               \/ nonLeaders(q) # {} /\ getLeadingTeamForSlug(post) \notin nonLeaders(q)
      /\ ~HasValidToken(q) => search.teamPosts = allPosts
      /\ leaders(q) \cup nonLeaders(q) \subseteq teams

\* a query with a leader: token, a !leader: token and a token of an unknown
\* team; the post without leading team passes, a post of the negated team not
C29_Witness ==
  /\ leaders(search.query) # {}
  /\ nonLeaders(search.query) # {}
  /\ HasUnknownToken(search.query)
  /\ \E post \in search.teamPosts : getLeadingTeamForSlug(post) = NoTeam
  /\ \E post \in allPosts \ search.teamPosts : getLeadingTeamForSlug(post) \in nonLeaders(search.query)

\* -------------------------------------------------- properties: TeamProvider
\* C30: once the user is absent the exposed team eventually is UNKNOWN,
\* whatever setTeam was called with before; while a user with a team is
\* present the exposed team is that user's team, and a setTeam call does not
\* change it.
C30_ExposedTeam ==
  /\ [](teamUi.user # NoUi => ExposedTeam(teamUi) = teamUi.user.team)
  /\ [][teamUi.user # NoUi /\ teamUi'.op = "setTeam" /\ teamUi'.team # teamUi.team
          => ExposedTeam(teamUi') = ExposedTeam(teamUi)]_vars
  /\ (teamUi.user = NoUi /\ teamUi.op = "user") ~> (ExposedTeam(teamUi) = UNKNOWN)

\* the user has logged out after setTeam had set another team, and the
\* effect has reset the state
C30_Witness ==
  /\ teamUi.user = NoUi
  /\ teamUi.op = "effect"
  /\ teamUi.was \in teams
  /\ ExposedTeam(teamUi) = UNKNOWN

====
